---------------------------- MODULE Spec2Model ----------------------------
(***************************************************************************)
(* A model of ofxstatement-seb (src/ofxstatement/plugins/seb.py): the      *)
(* SEB worksheet validator, the statement header extractor, the record     *)
(* splitter and parser, the plugin entry point and the locale-scoped       *)
(* atof.                                                                   *)
(*                                                                         *)
(* Text is a sequence of one-character strings, so that the regular        *)
(* expressions and strptime of the source are computed character by        *)
(* character.  A worksheet cell is a record [kind, val]: kind is "none"    *)
(* (Python None), "text" (str), "num" (int/float) or "date" (datetime);    *)
(* val is the text, or the printed form of a number or a date.             *)
(***************************************************************************)
EXTENDS Integers, Sequences, FiniteSets, TLC

(***************************************************************************)
(* Bounds of the model.                                                    *)
(***************************************************************************)
MaxDataRows == 2

(***************************************************************************)
(* Characters and character classes of Python's re module.                 *)
(***************************************************************************)
Digit == {"0", "1", "2", "3", "4", "5", "6", "7", "8", "9"}

DigitVal(c) ==
    CASE c = "0" -> 0 [] c = "1" -> 1 [] c = "2" -> 2 [] c = "3" -> 3
      [] c = "4" -> 4 [] c = "5" -> 5 [] c = "6" -> 6 [] c = "7" -> 7
      [] c = "8" -> 8 [] c = "9" -> 9

\* \s of re: the whitespace characters of the model's alphabet.
Space == {" ", "\t", "\n"}

\* Characters of the model's alphabet that \w does not match.
Punct == {"(", ")", "/", "-", ":", ".", ","}

\* \w of re: letters (of any script), digits and the underscore.
IsWord(c) == c \notin Space \cup Punct

IsDigits(s) == \A i \in 1..Len(s) : s[i] \in Digit

RECURSIVE NumVal(_)
NumVal(s) ==
    IF s = <<>> THEN 0
    ELSE 10 * NumVal(SubSeq(s, 1, Len(s) - 1)) + DigitVal(s[Len(s)])

\* The subject of a pattern that ends in $: $ matches at the end of the
\* string and also just before a newline that ends the string.
Dollar(s) ==
    IF s # <<>> /\ s[Len(s)] = "\n" THEN {s, SubSeq(s, 1, Len(s) - 1)} ELSE {s}

(***************************************************************************)
(* Cells.                                                                  *)
(***************************************************************************)
None == [kind |-> "none", val |-> <<>>]
Text(s) == [kind |-> "text", val |-> s]
Num(s) == [kind |-> "num", val |-> s]
Date(s) == [kind |-> "date", val |-> s]

(***************************************************************************)
(* take(n, iterable): the first n items.                                   *)
(***************************************************************************)
take(n, s) == SubSeq(s, 1, IF Len(s) < n THEN Len(s) ELSE n)

(***************************************************************************)
(* The regular expressions of the source, as re.match computes them.  Each *)
(* gives the set of its matches: empty when the text does not match.       *)
(***************************************************************************)
\* '^\w+\s\(([0-9\s]+)\)$': the matches' group 1.
AccountRe(s) ==
    { SubSeq(t, i + 3, Len(t) - 1) :
        <<t, i>> \in { <<u, k>> \in Dollar(s) \X (1..Len(s)) :
                         /\ k + 4 <= Len(u)
                         /\ \A j \in 1..k : IsWord(u[j])
                         /\ u[k + 1] \in Space
                         /\ u[k + 2] = "("
                         /\ \A j \in (k + 3)..(Len(u) - 1) : u[j] \in Digit \cup Space
                         /\ u[Len(u)] = ")" } }

\* '(.*)/([0-9]{2}-[0-9]{2}-[0-9]{2})$': the matches' groups <<1, 2>>.
\* The dot matches every character but the newline.
CardRe(s) ==
    { <<SubSeq(t, 1, Len(t) - 9), SubSeq(t, Len(t) - 7, Len(t))>> :
        t \in { u \in Dollar(s) :
                  /\ Len(u) >= 9
                  /\ u[Len(u) - 8] = "/"
                  /\ u[Len(u) - 5] = "-"
                  /\ u[Len(u) - 2] = "-"
                  /\ \A j \in {7, 6, 4, 3, 1, 0} : u[Len(u) - j] \in Digit
                  /\ \A j \in 1..(Len(u) - 9) : u[j] # "\n" } }

(***************************************************************************)
(* datetime.strptime for the two formats of the source, "%Y-%m-%d" (year   *)
(* of 4 digits) and "%y-%m-%d" (year of 2 digits, 00-68 in 20xx and 69-99  *)
(* in 19xx).  <<>> stands for the ValueError of a text that does not match *)
(* the format or names no day of the calendar.                             *)
(***************************************************************************)
Leap(y) == (y % 4 = 0 /\ y % 100 # 0) \/ y % 400 = 0

DaysIn(y, m) ==
    IF m = 2 THEN (IF Leap(y) THEN 29 ELSE 28)
    ELSE IF m \in {4, 6, 9, 11} THEN 30 ELSE 31

\* %m: 1[0-2]|0[1-9]|[1-9]
MonthField(f) == Len(f) \in {1, 2} /\ IsDigits(f) /\ NumVal(f) \in 1..12

\* %d: 3[0-1]|[1-2]\d|0[1-9]|[1-9]| [1-9]
DayField(f) ==
    \/ Len(f) \in {1, 2} /\ IsDigits(f) /\ NumVal(f) \in 1..31
    \/ Len(f) = 2 /\ f[1] = " " /\ f[2] \in Digit \ {"0"}

DayVal(f) == IF f[1] = " " THEN DigitVal(f[2]) ELSE NumVal(f)

Century(yy) == IF yy <= 68 THEN 2000 + yy ELSE 1900 + yy

strptime(s, format) ==
    LET yearDigits == IF format = "%Y-%m-%d" THEN 4 ELSE 2
        dashes == { i \in 1..Len(s) : s[i] = "-" }
    IN  IF Cardinality(dashes) # 2 THEN <<>>
        ELSE
          LET p1 == CHOOSE i \in dashes : \A j \in dashes : i <= j
              p2 == CHOOSE i \in dashes : \A j \in dashes : i >= j
              Y == SubSeq(s, 1, p1 - 1)
              M == SubSeq(s, p1 + 1, p2 - 1)
              D == SubSeq(s, p2 + 1, Len(s))
              y == IF yearDigits = 2 THEN Century(NumVal(Y)) ELSE NumVal(Y)
          IN  IF /\ Len(Y) = yearDigits /\ IsDigits(Y)
                 /\ MonthField(M) /\ DayField(D)
                 /\ y >= 1 /\ DayVal(D) <= DaysIn(y, NumVal(M))
              THEN << [y |-> y, m |-> NumVal(M), d |-> DayVal(D)] >>
              ELSE <<>>

(***************************************************************************)
(* Exceptions.  A call's outcome carries the exception it raised ("" when  *)
(* it returned), the exception's description (str(e), as a list of its     *)
(* parts) and the operation that raised it.                                *)
(***************************************************************************)
NoError == [raised |-> "", descr |-> <<>>, op |-> ""]
Raise(exc, descr, op) == [raised |-> exc, descr |-> descr, op |-> op]

(***************************************************************************)
(* SebStatementParser: class attributes.                                   *)
(***************************************************************************)
date_format == "%Y-%m-%d"
bank_id == <<"S", "E", "B">>
currency_id == <<"S", "E", "K">>

\* The list row index 7 is compared with.
StatementHeader ==
    << Text(<<"B", "o", "k", "f", "ö", "r", "i", "n", "g", "s", "d", "a", "t", "u", "m">>),
       Text(<<"V", "a", "l", "u", "t", "a", "d", "a", "t", "u", "m">>),
       Text(<<"V", "e", "r", "i", "f", "i", "k", "a", "t", "i", "o", "n", "s",
              "n", "u", "m", "m", "e", "r">>),
       Text(<<"T", "e", "x", "t">>),
       Text(<<"B", "e", "l", "o", "p", "p">>),
       Text(<<"S", "a", "l", "d", "o">>) >>

(***************************************************************************)
(* _validate: the chain of assert statements over the first 8 rows.  Its   *)
(* outcome names the exception raised, the exception's arguments, and the  *)
(* statement that raised it: "rows", "cells", "account", "empty" or        *)
(* "header".  The assert statements of the source give no message, so the  *)
(* AssertionError they raise has no arguments.                             *)
(***************************************************************************)
AssertionErrorWithMessage(stmt) ==
    [raised |-> "AssertionError", args |-> <<stmt>>, stmt |-> stmt]

AssertionError(stmt) == [raised |-> "AssertionError", args |-> <<>>, stmt |-> stmt]

\* re.match on an argument that is no str.
ReTypeError(stmt) ==
    [raised |-> "TypeError",
     args |-> <<"expected string or bytes-like object">>, stmt |-> stmt]

Validated == [raised |-> "", args |-> <<>>, stmt |-> ""]

\* Lines 91-95: the account row, row index 4.
AccountCheck(account_row) ==
    IF account_row[1].kind # "text" THEN ReTypeError("account")
    ELSE IF AccountRe(account_row[1].val) = {} THEN AssertionError("account")
    ELSE IF SubSeq(account_row, 5, 6) # <<None, None>> THEN AssertionError("account")
    ELSE Validated

_validate(sheet_rows) ==
    LET rows == take(8, sheet_rows)
    IN  IF Len(rows) # 8 THEN AssertionError("rows")
        ELSE IF \E r \in 1..8 : Len(rows[r]) # 6 THEN AssertionError("cells")
        ELSE IF AccountCheck(rows[5]).raised # "" THEN AccountCheck(rows[5])
        ELSE IF rows[6] # <<None, None, None, None, None, None>>
            THEN AssertionError("empty")
        ELSE IF rows[8] # StatementHeader THEN AssertionError("header")
        ELSE Validated

(***************************************************************************)
(* validate: an AssertionError becomes ValueError(e), whose description is *)
(* str(e); any other exception of _validate propagates as it is.           *)
(***************************************************************************)
validate(sheet_rows) ==
    LET e == _validate(sheet_rows)
    IN  IF e.raised = "" THEN NoError
        ELSE IF e.raised = "AssertionError" THEN Raise("ValueError", e.args, "validate")
        ELSE Raise(e.raised, e.args, "validate")

(***************************************************************************)
(* parse_statement: the statement summary, from row index 4.  It is called *)
(* after validate, so the pattern matches.                                 *)
(***************************************************************************)
\* The bug of taking the whole match, account_id[0], for the account id.
parse_statement_group0(sheet_rows) ==
    [account_id |-> take(8, sheet_rows)[5][1].val,
     bank_id |-> bank_id, currency |-> currency_id]

parse_statement(sheet_rows) ==
    LET rows == take(8, sheet_rows)
        account_row == rows[5]
        account_id == AccountRe(account_row[1].val)
    IN  [account_id |-> CHOOSE g \in account_id : TRUE,
         bank_id |-> bank_id, currency |-> currency_id]

(***************************************************************************)
(* Python values other than cells' values: bool.  bool(v) of an if.        *)
(***************************************************************************)
Bool(b) ==
    [kind |-> "bool",
     val |-> IF b THEN <<"T", "r", "u", "e">> ELSE <<"F", "a", "l", "s", "e">>]

Truthy(v) ==
    CASE v.kind = "none" -> FALSE
      [] v.kind = "bool" -> v = Bool(TRUE)
      [] v.kind = "text" -> v.val # <<>>
      [] OTHER -> TRUE

(***************************************************************************)
(* parse_record.  The outcome is the error raised and the list of the      *)
(* statement lines returned: one line, or none when an exception leaves    *)
(* parse_record.                                                           *)
(***************************************************************************)
Failed(e) == [err |-> e, line |-> <<>>]
Returned(l) == [err |-> NoError, line |-> <<l>>]

\* StatementParser.parse_datetime: datetime.strptime(value, self.date_format).
\* The outcome is the error raised and the list of the date returned.
parse_datetime(value) ==
    IF value.kind # "text"
        THEN [err |-> Raise("TypeError", <<"strptime() argument 1 must be str">>,
                            "parse_record"), date |-> <<>>]
    ELSE IF strptime(value.val, date_format) = <<>>
        THEN [err |-> Raise("ValueError", <<"time data does not match format">>,
                            "parse_record"), date |-> <<>>]
    ELSE [err |-> NoError, date |-> strptime(value.val, date_format)]

\* generate_transaction_id: a digest of the line's date, memo and amount.
generate_transaction_id(date, memo, amount) ==
    [date |-> date, memo |-> memo.val, amount |-> amount]

StatementLine(date, date_user, refnum, memo, amount) ==
    [date |-> date, date_user |-> date_user, refnum |-> refnum, memo |-> memo,
     amount |-> amount, id |-> generate_transaction_id(date, memo, amount)]

IndexError == Raise("IndexError", <<"list index out of range">>, "parse_record")

\* Lines 155-163: the purchase date at the end of the memo.
CardMemo(brief, date, refnum, memo, amount) ==
    IF memo.kind # "text"
        THEN Failed(Raise("TypeError", <<"expected string or bytes-like object">>,
                          "parse_record"))
    ELSE IF CardRe(memo.val) = {}
        THEN Returned(StatementLine(date, <<>>, refnum, memo, amount))
    ELSE LET m == CHOOSE g \in CardRe(memo.val) : TRUE
             card_memo == m[1]
             card_date == m[2]
         IN  IF strptime(card_date, "%y-%m-%d") = <<>>
                 THEN Failed(Raise("ValueError", <<"time data does not match format">>,
                                   "parse_record"))
             ELSE Returned(StatementLine(date, strptime(card_date, "%y-%m-%d"), refnum,
                                         IF Truthy(brief) THEN Text(card_memo) ELSE memo,
                                         amount))

\* The bug of not parsing the value-date at all.
parse_record_skip_value_date(row0, brief) ==
    LET row == take(5, row0)
    IN  IF Len(row) < 5 THEN Failed(IndexError)
        ELSE IF parse_datetime(row[1]).err.raised # "" THEN Failed(parse_datetime(row[1]).err)
        ELSE CardMemo(brief, parse_datetime(row[1]).date[1], row[3], row[4], row[5])

\* The bug of trimming the memo whatever the brief flag is.
parse_record_always_brief(row0, brief) ==
    LET row == take(5, row0)
    IN  IF Len(row) < 5 THEN Failed(IndexError)
        ELSE IF parse_datetime(row[1]).err.raised # "" THEN Failed(parse_datetime(row[1]).err)
        ELSE IF parse_datetime(row[2]).err.raised # "" THEN Failed(parse_datetime(row[2]).err)
        ELSE CardMemo(Bool(TRUE), parse_datetime(row[1]).date[1], row[3], row[4], row[5])

parse_record(row0, brief) ==
    LET row == take(5, row0)
    IN  IF Len(row) < 1 THEN Failed(IndexError)
        ELSE IF parse_datetime(row[1]).err.raised # "" THEN Failed(parse_datetime(row[1]).err)
        ELSE IF Len(row) < 2 THEN Failed(IndexError)
        ELSE IF parse_datetime(row[2]).err.raised # "" THEN Failed(parse_datetime(row[2]).err)
        ELSE IF Len(row) < 5 THEN Failed(IndexError)
        ELSE CardMemo(brief, parse_datetime(row[1]).date[1], row[3], row[4], row[5])

(***************************************************************************)
(* parse_bool.  The outcome is the error raised and the list of the value  *)
(* returned.                                                               *)
(***************************************************************************)
parse_bool(value) ==
    IF value \in {<<"T", "r", "u", "e">>, <<"t", "r", "u", "e">>, <<"1">>}
        THEN [err |-> NoError, value |-> <<Bool(TRUE)>>]
    ELSE IF value \in {<<"F", "a", "l", "s", "e">>, <<"f", "a", "l", "s", "e">>, <<"0">>}
        THEN [err |-> NoError, value |-> <<Bool(FALSE)>>]
    ELSE [err |-> Raise("ValueError", <<"Can't parse boolean value: ">> \o value,
                        "parse_bool"),
          value |-> <<>>]

(***************************************************************************)
(* The locale module.  A locale name is text: language[.encoding]          *)
(* [@modifier], or C.  The host has the locales of Installed.              *)
(***************************************************************************)
C_ == <<"C">>
sv_SE == <<"s", "v", "_", "S", "E">>
sv_SE_UTF8 == <<"s", "v", "_", "S", "E", ".", "U", "T", "F", "-", "8">>
en_US_UTF8 == <<"e", "n", "_", "U", "S", ".", "U", "T", "F", "-", "8">>
sr_RS_UTF8 == <<"s", "r", "_", "R", "S", ".", "U", "T", "F", "-", "8">>
sr_RS_UTF8_latin == sr_RS_UTF8 \o <<"@", "l", "a", "t", "i", "n">>
ca_ES_UTF8_valencia ==
    <<"c", "a", "_", "E", "S", ".", "U", "T", "F", "-", "8",
      "@", "v", "a", "l", "e", "n", "c", "i", "a">>
xx_XX == <<"x", "x", "_", "X", "X">>

Installed ==
    {C_, sv_SE, sv_SE_UTF8, en_US_UTF8, sr_RS_UTF8, sr_RS_UTF8_latin,
     ca_ES_UTF8_valencia}

\* The first position of character c in s, or Len(s) + 1.
Find(s, c) ==
    IF \E i \in 1..Len(s) : s[i] = c
        THEN CHOOSE i \in 1..Len(s) : s[i] = c /\ \A j \in 1..(i - 1) : s[j] # c
    ELSE Len(s) + 1

\* locale._parse_localename, on a name locale.normalize leaves as it is (C
\* or a name with its encoding): the modifier is cut off and ignored, the
\* rest is split at the dot; C gives (None, None).
_parse_localename(localename) ==
    LET code == SubSeq(localename, 1, Find(localename, "@") - 1)
        dot == Find(code, ".")
    IN  IF dot <= Len(code)
            THEN <<Text(SubSeq(code, 1, dot - 1)), Text(SubSeq(code, dot + 1, Len(code)))>>
        ELSE <<None, None>>

\* locale._build_localename: language.encoding, language, or C.
_build_localename(localetuple) ==
    LET language == IF localetuple[1] = None THEN C_ ELSE localetuple[1].val
    IN  IF localetuple[2] = None THEN language
        ELSE language \o <<".">> \o localetuple[2].val

\* locale.getlocale(category): the current setting, parsed.
getlocale(current) == _parse_localename(current)

\* locale.localeconv() under a locale: <<decimal_point, thousands_sep>>.
localeconv(name) ==
    LET language == SubSeq(name, 1, Find(SubSeq(name, 1, Find(name, "@") - 1), ".") - 1)
    IN  CASE language = <<"s", "v", "_", "S", "E">> -> <<<<",">>, <<" ">>>>
          [] language = <<"e", "n", "_", "U", "S">> -> <<<<".">>, <<",">>>>
          [] language = <<"s", "r", "_", "R", "S">> -> <<<<",">>, <<".">>>>
          [] language = <<"c", "a", "_", "E", "S">> -> <<<<",">>, <<".">>>>
          [] OTHER -> <<<<".">>, <<>>>>

\* str.replace(old, new) for old of at most one character.
RECURSIVE Replace(_, _, _)
Replace(s, old, new) ==
    IF s = <<>> \/ old = <<>> THEN s
    ELSE (IF <<s[1]>> = old THEN new ELSE <<s[1]>>) \o Replace(Tail(s), old, new)

\* locale.delocalize
delocalize(string, name) ==
    Replace(Replace(string, localeconv(name)[2], <<>>), localeconv(name)[1], <<".">>)

\* float(str), for plain decimal literals: [+-]digits[.digits] or [+-].digits
IsFloat(s) ==
    LET u == IF s # <<>> /\ s[1] \in {"+", "-"} THEN Tail(s) ELSE s
        dot == Find(u, ".")
        whole == SubSeq(u, 1, dot - 1)
        frac == SubSeq(u, dot + 1, Len(u))
    IN  /\ IsDigits(whole) /\ IsDigits(frac)
        /\ Len(whole) + Len(frac) >= 1

\* setlocale(category, value): the outcome is whether locale.Error is raised
\* and the setting afterwards.  value is None (a query), the text of a name,
\* or a (language, encoding) pair as getlocale returns it.
setlocale(current, value) ==
    LET name == IF Len(value) = 2 THEN _build_localename(value) ELSE value[1].val
    IN  IF Len(value) = 1 /\ value[1] = None THEN [raised |-> "", now |-> current]
        ELSE IF name \in Installed THEN [raised |-> "", now |-> name]
        ELSE [raised |-> "locale.Error", now |-> current]

(***************************************************************************)
(* atof(string, loc): locale.atof(string) inside scoped_setlocale.  The    *)
(* outcome is the error raised, the list of the value returned and the     *)
(* process's numeric locale afterwards.                                    *)
(***************************************************************************)
LocaleError == Raise("locale.Error", <<"unsupported locale setting">>, "atof")

atof(current, string, loc) ==
    LET orig == getlocale(current)
        entered == setlocale(current, <<loc>>)
        restored == setlocale(entered.now, orig)
        body ==
            IF entered.raised # "" THEN [err |-> LocaleError, value |-> <<>>]
            ELSE IF IsFloat(delocalize(string, entered.now))
                THEN [err |-> NoError, value |-> <<Num(delocalize(string, entered.now))>>]
            ELSE [err |-> Raise("ValueError", <<"could not convert string to float">>,
                                "atof"),
                  value |-> <<>>]
    IN  IF restored.raised # ""
            THEN [err |-> LocaleError, value |-> <<>>, now |-> restored.now]
        ELSE [err |-> body.err, value |-> body.value, now |-> restored.now]

(***************************************************************************)
(* SebStatementParser(fin, locale, brief): __init__.  The outcome is the   *)
(* error raised and the list of the parser constructed: one parser, with   *)
(* its locale, brief and statement attributes, or none.                    *)
(***************************************************************************)
\* The bug, or the feature, of resolving the locale in the constructor.
SebStatementParserResolving(fin, locale, brief) ==
    IF locale.kind = "text" /\ locale.val \notin Installed
        THEN [err |-> Raise("locale.Error", <<"unsupported locale setting">>, "__init__"),
              parser |-> <<>>]
    ELSE IF validate(fin).raised # "" THEN [err |-> validate(fin), parser |-> <<>>]
    ELSE [err |-> NoError,
          parser |-> <<[locale |-> locale, brief |-> brief,
                        statement |-> parse_statement(fin)]>>]

SebStatementParser(fin, locale, brief) ==
    IF validate(fin).raised # "" THEN [err |-> validate(fin), parser |-> <<>>]
    ELSE [err |-> NoError,
          parser |-> <<[locale |-> locale, brief |-> brief,
                        statement |-> parse_statement(fin)]>>]

(***************************************************************************)
(* SebPlugin.get_parser(fin).  The settings give, for each of the keys     *)
(* locale and brief, the list of its token: one token, or none when the    *)
(* key is not set.  The outcome is the error raised, the list of the       *)
(* keyword arguments the constructor was called with (none when it was not *)
(* called) and the list of the parser.                                     *)
(***************************************************************************)
get_parser(fin, plugin_settings) ==
    LET locale == IF plugin_settings.locale = <<>>
                      THEN [err |-> NoError, value |-> <<Text(sv_SE)>>]
                  ELSE parse_bool(plugin_settings.locale[1])
        brief == IF plugin_settings.brief = <<>>
                     THEN [err |-> NoError, value |-> <<Bool(FALSE)>>]
                 ELSE parse_bool(plugin_settings.brief[1])
    IN  IF locale.err.raised # "" THEN [err |-> locale.err, kwargs |-> <<>>, parser |-> <<>>]
        ELSE IF brief.err.raised # ""
            THEN [err |-> brief.err, kwargs |-> <<>>, parser |-> <<>>]
        ELSE [err |-> SebStatementParser(fin, locale.value[1], brief.value[1]).err,
              kwargs |-> <<[locale |-> locale.value[1], brief |-> brief.value[1]]>>,
              parser |-> SebStatementParser(fin, locale.value[1], brief.value[1]).parser]

(***************************************************************************)
(* Inputs: worksheets.                                                     *)
(***************************************************************************)
PostingDate == Text(<<"2", "0", "1", "5", "-", "0", "1", "-", "0", "2">>)
OtherPostingDate == Text(<<"2", "0", "1", "4", "-", "1", "2", "-", "3", "1">>)
ValueDate == Text(<<"2", "0", "1", "5", "-", "0", "1", "-", "0", "3">>)
OtherValueDate == Text(<<"2", "0", "1", "5", "-", "1", "-", "5">>)
NoCalendarDate == Text(<<"2", "0", "1", "5", "-", "0", "2", "-", "3", "0">>)
Footer ==
    Text(<<"D", "a", "t", "u", "m", ":", " ", "2", "0", "1", "5", "-", "0", "1", "-",
           "0", "1", " ", "-", " ", "2", "0", "1", "5", "-", "0", "1", "-", "3", "1">>)
PlainMemo ==
    Text(<<"I", "C", "A", " ", "S", "U", "P", "E", "R", "M", "A", "R", "K", "E", "T">>)
CardMemoText ==
    Text(<<"W", "I", "R", "S", "T", "R", "Ö", "M", "S", " ", "P", "U",
           "/", "1", "4", "-", "1", "2", "-", "3", "1">>)
CardMemoNewline ==
    Text(<<"B", "A", "R", "/", "6", "9", "-", "0", "2", "-", "2", "8", "\n">>)
TwoLineMemo == Text(<<"A", "\n", "B", "/", "1", "4", "-", "1", "2", "-", "3", "1">>)
NoCalendarMemo == Text(<<"R", "E", "F", "/", "1", "4", "-", "1", "3", "-", "0", "1">>)
Account1 ==
    Text(<<"P", "r", "i", "v", "a", "t", "k", "o", "n", "t", "o", " ",
           "(", "1", "2", "3", "4", " ", "5", "6", "7", " ", "8", "9", "0", ")">>)
Account2 == Text(<<"K", " ", "(", "1", " ", "2", ")", "\n">>)
NoParens == Text(<<"P", "r", "i", "v", "a", "t", "k", "o", "n", "t", "o">>)
BadDigits == Text(<<"K", " ", "(", "1", "a", ")">>)
Amount1 == Num(<<"-", "1", "4", "9", ".", "0", "0">>)
Amount2 == Num(<<"-", "2", "5", "0", ".", "0", "0">>)
Ref1 == Num(<<"5", "4", "8", "4">>)
Balance == Num(<<"1", "0", "0", "0", ".", "0", "0">>)

Blank == <<None, None, None, None, None, None>>

AccountCells ==
    {Account1, Account2, NoParens, BadDigits, None, Num(<<"1", "2", "3", "4">>),
     Date(PostingDate.val)}

AccountTails == {<<None, None>>, <<None, Balance>>, <<Text(<<"x">>), None>>}

EmptyRows ==
    {Blank, [Blank EXCEPT ![1] = Text(<<"x">>)], [Blank EXCEPT ![6] = Num(<<"0">>)]}

HeaderRows ==
    {StatementHeader,
     [StatementHeader EXCEPT ![6] = Text(<<"s", "a", "l", "d", "o">>)],
     [StatementHeader EXCEPT ![1] = StatementHeader[2], ![2] = StatementHeader[1]],
     [StatementHeader EXCEPT ![3] = None]}

Shapes == {"full", "short", "none", "narrow", "wide"}

DataRow(date, value_date, memo, amount) ==
    <<date, value_date, Ref1, memo, amount, Balance>>

GoodRow == DataRow(PostingDate, ValueDate, PlainMemo, Amount1)

DataRows ==
    {GoodRow,
     DataRow(PostingDate, OtherValueDate, PlainMemo, Amount1),
     DataRow(OtherPostingDate, ValueDate, CardMemoText, Amount2),
     DataRow(PostingDate, ValueDate, CardMemoNewline, Amount1),
     DataRow(PostingDate, ValueDate, TwoLineMemo, Amount1),
     DataRow(PostingDate, ValueDate, NoCalendarMemo, Amount1),
     DataRow(PostingDate, ValueDate, None, Amount1),
     DataRow(PostingDate, None, PlainMemo, Amount1),
     DataRow(PostingDate, NoCalendarDate, CardMemoText, Amount1),
     DataRow(Date(PostingDate.val), ValueDate, PlainMemo, Amount1),
     <<Footer, None, None, None, None, None>>}

\* A worksheet: 8 rows of preamble, built from the account cell, the last
\* two cells of the account row, row index 5 and row index 7, then the
\* data rows; cut or reshaped as the shape says.
Worksheet(shape, account, tail, empty_row, header_row, data) ==
    LET preamble == <<Blank, Blank, Blank, Blank, <<account, None, None, None>> \o tail,
                      empty_row, Blank, header_row>>
    IN  CASE shape = "full" -> preamble \o data
          [] shape = "short" -> SubSeq(preamble, 1, 7)
          [] shape = "none" -> <<>>
          [] shape = "narrow" -> [preamble EXCEPT ![3] = SubSeq(Blank, 1, 5)] \o data
          [] shape = "wide" -> [preamble EXCEPT ![8] = header_row \o <<None>>] \o data

\* Worksheets whose preamble varies.
PreambleSheets ==
    { Worksheet(sh, a, t, e, h, d) :
        sh \in Shapes, a \in AccountCells, t \in AccountTails, e \in EmptyRows,
        h \in HeaderRows, d \in {<<>>, <<GoodRow>>} }

\* Worksheets of the fixed layout whose data rows vary.
DataSheets ==
    { Worksheet("full", Account1, <<None, None>>, Blank, StatementHeader, d) :
        d \in UNION { [1..n -> DataRows] : n \in 0..MaxDataRows } }

Sheets == PreambleSheets \cup DataSheets

(***************************************************************************)
(* Inputs: the constructor's arguments, the plugin's settings, atof's      *)
(* arguments.                                                              *)
(***************************************************************************)
LocaleArgs == {None, Text(sv_SE), Text(en_US_UTF8), Text(xx_XX)}
BriefArgs == {Bool(TRUE), Bool(FALSE)}

LocaleTokens == {sv_SE, en_US_UTF8, xx_XX, <<"T", "r", "u", "e">>, <<"0">>}
BriefTokens ==
    {<<"T", "r", "u", "e">>, <<"t", "r", "u", "e">>, <<"1">>,
     <<"F", "a", "l", "s", "e">>, <<"f", "a", "l", "s", "e">>, <<"0">>,
     <<"y", "e", "s">>, <<"T", "R", "U", "E">>, <<>>}

Optional(S) == {<<>>} \cup { <<v>> : v \in S }

Settings == [locale : Optional(LocaleTokens), brief : Optional(BriefTokens)]
NoSettings == [locale |-> <<>>, brief |-> <<>>]

PluginSheets ==
    {Worksheet("full", Account1, <<None, None>>, Blank, StatementHeader, <<>>),
     Worksheet("full", Account2, <<None, None>>, Blank, StatementHeader,
               <<DataRow(OtherPostingDate, ValueDate, CardMemoText, Amount2)>>),
     Worksheet("short", Account1, <<None, None>>, Blank, StatementHeader, <<>>)}

\* The numeric locale of the process before a call of atof: a name as the
\* C library reports it, with its encoding, or C.
ProcessLocales ==
    {C_, sv_SE_UTF8, en_US_UTF8, sr_RS_UTF8, sr_RS_UTF8_latin, ca_ES_UTF8_valencia}

AtofStrings ==
    {<<"1", ",", "5">>, <<"1", ".", "5">>, <<"-", "1", " ", "2", "3", "4", ",", "5">>,
     <<"a", "b", "c">>, <<>>}

AtofLocales == {None, Text(sv_SE), Text(en_US_UTF8), Text(C_), Text(xx_XX)}

(***************************************************************************)
(* The state.                                                              *)
(***************************************************************************)
VARIABLES
    settings,       \* the plugin's settings
    sheet,          \* the rows of the workbook's active sheet
    args,           \* the arguments the constructor was called with, if it was
    parser,         \* the parser constructed, if one was
    pc,             \* "start", "constructed", "done" or "failed"
    error,          \* the exception that reached the caller
    cursor,         \* the data rows split_records has yielded
    lines,          \* the statement lines parse_record has returned
    numericLocale,  \* the process's LC_NUMERIC setting
    call,           \* the call of atof made, if one was
    result          \* the value atof returned, if it did

vars ==
    <<settings, sheet, args, parser, pc, error, cursor, lines, numericLocale,
      call, result>>

Start ==
    /\ args = <<>> /\ parser = <<>> /\ pc = "start" /\ error = NoError
    /\ cursor = 0 /\ lines = <<>> /\ call = <<>> /\ result = <<>>

\* A caller constructs the parser on the worksheet.
Init ==
    /\ settings = NoSettings
    /\ sheet \in Sheets
    /\ numericLocale = C_
    /\ Start

\* The plugin constructs the parser on the worksheet.
InitPlugin ==
    /\ settings \in Settings
    /\ sheet \in PluginSheets
    /\ numericLocale = C_
    /\ Start

\* A caller calls atof.
InitAtof ==
    /\ settings = NoSettings
    /\ sheet = <<>>
    /\ numericLocale \in ProcessLocales
    /\ Start

(***************************************************************************)
(* The operations.                                                         *)
(***************************************************************************)
Constructed(outcome) ==
    /\ parser' = outcome.parser
    /\ error' = outcome.err
    /\ pc' = IF outcome.err.raised # "" THEN "failed" ELSE "constructed"
    /\ UNCHANGED <<settings, sheet, cursor, lines, numericLocale, call, result>>

\* SebStatementParser(fin, locale, brief)
NewParser ==
    /\ pc = "start"
    /\ \E locale \in LocaleArgs, brief \in BriefArgs :
          /\ args' = <<[locale |-> locale, brief |-> brief]>>
          /\ Constructed(SebStatementParser(sheet, locale, brief))

\* SebPlugin.get_parser(fin)
GetParser ==
    /\ pc = "start"
    /\ args' = get_parser(sheet, settings).kwargs
    /\ Constructed(get_parser(sheet, settings))

\* One step of the caller's loop over split_records(): the generator yields
\* the values of the next row after the first 8, and parse_record is applied.
ParseNext ==
    /\ pc = "constructed"
    /\ cursor < Len(sheet) - 8
    /\ LET outcome == parse_record(sheet[8 + cursor + 1], parser[1].brief)
       IN  /\ cursor' = cursor + 1
           /\ lines' = lines \o outcome.line
           /\ error' = outcome.err
           /\ pc' = IF outcome.err.raised # "" THEN "failed" ELSE "constructed"
    /\ UNCHANGED <<settings, sheet, args, parser, numericLocale, call, result>>

\* split_records() is exhausted: the loop ends.
EndOfRecords ==
    /\ pc = "constructed"
    /\ cursor = Len(sheet) - 8
    /\ pc' = "done"
    /\ UNCHANGED <<settings, sheet, args, parser, error, cursor, lines,
                   numericLocale, call, result>>

\* atof(string, loc)
Atof ==
    /\ pc = "start"
    /\ \E string \in AtofStrings, loc \in AtofLocales :
          LET outcome == atof(numericLocale, string, loc)
          IN  /\ call' = <<[string |-> string, loc |-> loc, before |-> numericLocale]>>
              /\ result' = outcome.value
              /\ error' = outcome.err
              /\ numericLocale' = outcome.now
              /\ pc' = IF outcome.err.raised # "" THEN "failed" ELSE "done"
    /\ UNCHANGED <<settings, sheet, args, parser, cursor, lines>>

Next == NewParser \/ ParseNext \/ EndOfRecords
Spec == Init /\ [][Next]_vars

NextPlugin == GetParser \/ ParseNext \/ EndOfRecords
SpecPlugin == InitPlugin /\ [][NextPlugin]_vars

NextAtof == Atof
SpecAtof == InitAtof /\ [][NextAtof]_vars

(***************************************************************************)
(* The claims.                                                             *)
(***************************************************************************)
\* The data row the i-th step of the loop consumed.
RowAt(i) == sheet[8 + i]

Rejected == pc = "failed" /\ error.op = "validate"

StructuralError == Rejected /\ error.raised = "ValueError" /\ parser = <<>>

HasEightRowsOfSix(rows) == Len(rows) >= 8 /\ \A r \in 1..8 : Len(rows[r]) = 6

\* The rule of row index 4.
AccountRule(row) ==
    /\ row[1].kind = "text" /\ AccountRe(row[1].val) # {}
    /\ row[5] = None /\ row[6] = None

\* C1: a worksheet with fewer than 8 rows, or a row among the first 8 that
\* has not exactly 6 cells, or a cell of row index 5 that is not absent, or
\* a row index 7 that differs from the header labels, makes the constructor
\* fail in validate() with ValueError, and no parser or summary is produced.
C1_StructuralError ==
    ( /\ pc # "start"
      /\ \/ Len(sheet) < 8
         \/ \E r \in 1..8 : Len(sheet[r]) # 6
         \/ \E c \in 1..Len(sheet[6]) : sheet[6][c] # None
         \/ sheet[8] # StatementHeader )
    => StructuralError

\* C2: with 8 rows of 6 cells, a row index 4 that violates its rule,
\* whatever kind of value its first cell holds, makes validate() fail with
\* ValueError and with no other exception.
C2_AccountRowError ==
    (pc # "start" /\ HasEightRowsOfSix(sheet) /\ ~AccountRule(sheet[5]))
    => StructuralError

WellFormedDate(cell, format) == cell.kind = "text" /\ strptime(cell.val, format) # <<>>

\* The date the digits NN-NN-NN name, read as YY-MM-DD.
SuffixDate(suffix) ==
    [y |-> Century(NumVal(SubSeq(suffix, 1, 2))),
     m |-> NumVal(SubSeq(suffix, 4, 5)),
     d |-> NumVal(SubSeq(suffix, 7, 8))]

IsCalendarDate(date) ==
    date.m \in 1..12 /\ date.d \in 1..DaysIn(date.y, date.m)

\* A row with well-formed dates: its posting date and value-date are
\* YYYY-MM-DD dates, its memo is text, and the purchase date at the end of
\* its memo, when there is one, is a day of the calendar.
WellFormedDates(row) ==
    /\ WellFormedDate(row[1], "%Y-%m-%d")
    /\ WellFormedDate(row[2], "%Y-%m-%d")
    /\ row[4].kind = "text"
    /\ \A g \in CardRe(row[4].val) : IsCalendarDate(SuffixDate(g[2]))

\* C3: every row with well-formed dates that the loop has consumed gave a
\* line.  If its memo matches <prefix>/<NN-NN-NN>, the line's date_user is
\* the date NN-NN-NN names as YY-MM-DD, and the line's memo is the prefix
\* when brief is true and the row's memo when it is false; if its memo does
\* not match, the line has no date_user and its memo is the row's.
C3_CardMemo ==
    \A i \in 1..cursor :
        WellFormedDates(RowAt(i)) =>
            /\ i <= Len(lines)
            /\ IF CardRe(RowAt(i)[4].val) # {}
                   THEN \A g \in CardRe(RowAt(i)[4].val) :
                           /\ lines[i].date_user = <<SuffixDate(g[2])>>
                           /\ lines[i].memo = IF parser[1].brief = Bool(TRUE)
                                                  THEN Text(g[1]) ELSE RowAt(i)[4]
               ELSE /\ lines[i].date_user = <<>>
                    /\ lines[i].memo = RowAt(i)[4]

\* C3's case: in brief mode a line whose memo was cut to the prefix and whose
\* date_user is 2014-12-31, after a line whose memo did not match.
C3_Witness ==
    /\ Len(lines) = 2
    /\ parser[1].brief = Bool(TRUE)
    /\ lines[1].memo = RowAt(1)[4] /\ lines[1].date_user = <<>>
    /\ lines[2].memo # RowAt(2)[4]
    /\ lines[2].date_user = <<[y |-> 2014, m |-> 12, d |-> 31]>>

\* C4: for a worksheet the validator accepted, the loop over split_records()
\* ends with one line for every row after the first 8, none failing.
C4_OneRecordPerRow ==
    (parser # <<>> /\ pc \in {"done", "failed"})
    => (pc = "done" /\ Len(lines) = Len(sheet) - 8)

\* C5: get_parser calls the constructor with the locale setting as text
\* (sv_SE when it is not set) and with the boolean of the brief setting
\* (False when it is not set); it raises the configuration error only for a
\* brief token that is none of True, true, 1, False, false, 0.
C5_PluginOptions ==
    LET TrueTokens == {<<"T", "r", "u", "e">>, <<"t", "r", "u", "e">>, <<"1">>}
        FalseTokens == {<<"F", "a", "l", "s", "e">>, <<"f", "a", "l", "s", "e">>, <<"0">>}
        briefParses == settings.brief \in Optional(TrueTokens \cup FalseTokens)
    IN  pc # "start" =>
            IF briefParses
                THEN /\ args # <<>>
                     /\ args[1].locale =
                            IF settings.locale = <<>>
                                THEN Text(<<"s", "v", "_", "S", "E">>)
                            ELSE Text(settings.locale[1])
                     /\ args[1].brief =
                            Bool(settings.brief # <<>> /\ settings.brief[1] \in TrueTokens)
            ELSE args = <<>> /\ pc = "failed" /\ error.op = "parse_bool"

\* The last position of character c in s.
LastIndex(s, c) == CHOOSE i \in 1..Len(s) : s[i] = c /\ \A j \in (i + 1)..Len(s) : s[j] # c

\* The text between the parentheses.
BetweenParentheses(s) == SubSeq(s, Find(s, "(") + 1, LastIndex(s, ")") - 1)

\* C6: a worksheet whose first 8 rows match the fixed layout is accepted,
\* and the parser's statement has the text between the parentheses of the
\* account cell as its account_id, SEB as its bank_id and SEK as its
\* currency, whatever the data rows, the locale and the brief flag are.
C6_StatementSummary ==
    ( /\ pc # "start"
      /\ HasEightRowsOfSix(sheet) /\ AccountRule(sheet[5])
      /\ sheet[6] = <<None, None, None, None, None, None>>
      /\ sheet[8] = StatementHeader )
    => /\ parser # <<>>
       /\ ~Rejected
       /\ parser[1].statement =
              [account_id |-> BetweenParentheses(sheet[5][1].val),
               bank_id |-> <<"S", "E", "B">>,
               currency |-> <<"S", "E", "K">>]

\* C6's case: the account id 1234 567 890 of a parser constructed with a
\* locale and in brief mode, on a worksheet with a data row.
C6_Witness ==
    /\ pc = "constructed"
    /\ Len(sheet) > 8
    /\ args[1].locale # None /\ args[1].brief = Bool(TRUE)
    /\ parser[1].statement.account_id =
           <<"1", "2", "3", "4", " ", "5", "6", "7", " ", "8", "9", "0">>

\* The first rule a worksheet violates, in the order of the checks; "" when
\* it violates none.
FirstViolated(rows) ==
    IF Len(rows) < 8 THEN "rows"
    ELSE IF \E r \in 1..8 : Len(rows[r]) # 6 THEN "cells"
    ELSE IF ~AccountRule(rows[5]) THEN "account"
    ELSE IF \E c \in 1..6 : rows[6][c] # None THEN "empty"
    ELSE IF rows[8] # StatementHeader THEN "header"
    ELSE ""

\* One worksheet for each rule, which it violates first.
RuleSheets ==
    {Worksheet("short", Account1, <<None, None>>, Blank, StatementHeader, <<>>),
     Worksheet("narrow", Account1, <<None, None>>, Blank, StatementHeader, <<>>),
     Worksheet("full", NoParens, <<None, None>>, Blank, StatementHeader, <<>>),
     Worksheet("full", Account1, <<None, None>>, [Blank EXCEPT ![1] = Text(<<"x">>)],
               StatementHeader, <<>>),
     Worksheet("full", Account1, <<None, None>>, Blank,
               [StatementHeader EXCEPT ![3] = None], <<>>)}

\* C7, as claimed: the ValueError of a rejected worksheet carries a
\* description, and differs from the error of every worksheet that first
\* violates another rule.
C7_DescribesFirstRule ==
    StructuralError =>
        /\ error.descr # <<>>
        /\ \A other \in RuleSheets :
               FirstViolated(other) # FirstViolated(sheet) => validate(other) # error

\* C7, amended: a worksheet rejected with ValueError is rejected by the
\* first rule it violates, in the order rows, cells, account, empty, header,
\* and the error carries no description.
C7_NoDescription ==
    StructuralError =>
        /\ FirstViolated(sheet) # ""
        /\ _validate(sheet).stmt = FirstViolated(sheet)
        /\ error.descr = <<>>

\* C7's case: a worksheet rejected for its header labels, the last rule.
C7_Witness == StructuralError /\ FirstViolated(sheet) = "header"

\* C8, as claimed: constructing the parser with a locale that is not
\* installed fails with the locale error, and no parser is produced.
C8_LocaleResolved ==
    (pc # "start" /\ args[1].locale.kind = "text" /\ args[1].locale.val \notin Installed)
    => (pc = "failed" /\ error.raised = "locale.Error" /\ parser = <<>>)

\* C8, amended: the constructor stores the locale and does not resolve it.
\* It raises no locale error and leaves the process's numeric locale alone;
\* a parser is produced exactly when the worksheet has the fixed layout,
\* and its locale is the one passed.
C8_LocaleStored ==
    pc # "start" =>
        /\ error.raised # "locale.Error"
        /\ numericLocale = <<"C">>
        /\ parser # <<>> <=> FirstViolated(sheet) = ""
        /\ parser # <<>> => parser[1].locale = args[1].locale

\* C8's case: a parser constructed with a locale that is not installed.
C8_Witness ==
    /\ parser # <<>>
    /\ args[1].locale.kind = "text" /\ args[1].locale.val \notin Installed

\* C9: after atof has finished, by returning or by raising, the process's
\* numeric locale is the one it was before the call.
C9_LocaleRestored == call # <<>> => numericLocale = call[1].before

\* C10: a row whose value-date is absent or no YYYY-MM-DD date makes
\* parse_record fail and give no line, and two rows that differ in their
\* value-date alone give equal lines.
C10_ValueDate ==
    /\ \A i \in 1..cursor :
          ~WellFormedDate(RowAt(i)[2], "%Y-%m-%d") =>
              /\ Len(lines) < i
              /\ pc = "failed" /\ error.op = "parse_record"
    /\ \A i, j \in 1..Len(lines) :
          [RowAt(i) EXCEPT ![2] = None] = [RowAt(j) EXCEPT ![2] = None]
              => lines[i] = lines[j]

\* C10's case: two lines from rows that differ in their value-date alone.
C10_Witness ==
    /\ Len(lines) = 2
    /\ RowAt(1)[2] # RowAt(2)[2]
    /\ [RowAt(1) EXCEPT ![2] = None] = [RowAt(2) EXCEPT ![2] = None]

=============================================================================
